---- MODULE Spec2Model ----
(***************************************************************************)
(* A model of the music backend's two endpoints, /search and              *)
(* /download-mp3, in the three server programs of the repository:         *)
(*   "youtube"  src/server.js 1-256      (youtube-dl-exec + ffmpeg, uuid)  *)
(*   "local"    src/server.js 258-566    (yt-dlp, md5 file in ./audio)     *)
(*   "remote"   src/unnamed/part_000     (yt-dlp, Firebase Storage, cache) *)
(*                                                                         *)
(* A JavaScript callback runs to completion, so each action is one        *)
(* callback: the synchronous part of a handler up to its first exec or    *)
(* await, or the callback of an exec / the continuation of an await.      *)
(* The subprocesses run beside the server: what they do to the file       *)
(* system (ConverterWrites, ConverterExits) are steps of their own.       *)
(*                                                                         *)
(* Strings are sequences of tokens, cut at the substrings the code tests  *)
(* for, so that s.includes(t) is "t is a token of s".                     *)
(***************************************************************************)
EXTENDS Integers, Sequences, FiniteSets, TLC

VARIABLES
    variant,                   \* which of the three programs is running
    firebaseAdminInitialized,  \* part_000:16
    fs,                        \* the local file system: path -> file
    bucket,                    \* Firebase Storage: object path -> file
    searchCache,               \* part_000:41, key -> [value, expires]
    now,                       \* the clock, in seconds
    reqs                       \* the requests received so far, in order of arrival

vars == <<variant, firebaseAdminInitialized, fs, bucket, searchCache, now, reqs>>

----------------------------------------------------------------------------
(* Bounds of the model *)

\* /download-mp3 requests per run
MaxRequests == 2
\* /search requests per run
MaxSearches == 3
\* lines of output of one extractor run
MaxLines == 2
\* steps of the clock per run
MaxTicks == 2
\* requests per run of the service in degraded mode
MaxDegraded == 2
\* requests per run with both endpoints in use
MaxConcurrent == 2
\* pieces of one diagnostic text of a failed subprocess
MaxDiagnosticLen == 2
\* restarts of the process per run
MaxRestarts == 1

----------------------------------------------------------------------------
(* JavaScript values and strings *)

Undefined == [present |-> FALSE, text |-> <<>>]
Str(t) == [present |-> TRUE, text |-> t]

\* !v for v undefined or a string: undefined and "" are falsy
FalsyOnlyUndefined(v) == ~v.present
Falsy(v) == ~v.present \/ v.text = <<>>

\* String.prototype.includes, on tokens
Includes(text, token) == \E i \in 1..Len(text) : text[i] = token

TrackA == <<"https://", "soundcloud.com", "/artist/track-a">>
VideoA == <<"https://", "youtube.com", "/watch?v=a">>
NotALocator == <<"not a locator">>

\* the bodies a client posts to /download-mp3: {}, {url: ""}, {url: "..."}
Bodies == {Undefined, Str(<<>>), Str(TrackA), Str(VideoA), Str(NotALocator)}

\* crypto.createHash('md5').update(url).digest('hex'), in four 8-digit
\* pieces, for the urls of Bodies
md5(text) ==
    CASE text = <<>> -> <<"d41d8cd9", "8f00b204", "e9800998", "ecf8427e">>
      [] text = TrackA -> <<"13c916e7", "49ea1e2e", "68d86098", "db91670c">>
      [] text = VideoA -> <<"647cdd09", "1abd1c9e", "16704b2d", "83f49dcd">>
      [] text = NotALocator -> <<"dcb19b01", "6c6ecde5", "79ad6966", "3bda3ff4">>

\* uuidv4(): the n-th identifier drawn is unlike every other one
uuidv4(n) == "uuid-" \o ToString(n)

----------------------------------------------------------------------------
(* Files *)

NoPath == <<>>

existsSync(files, p) == p \in DOMAIN files
unlinkSync(files, p) == [q \in DOMAIN files \ {p} |-> files[q]]
WriteFile(files, p, f) == [q \in DOMAIN files \cup {p} |-> IF q = p THEN f ELSE files[q]]

File(content, r) == [content |-> content, by |-> r]
NoFile == [content |-> "none", by |-> 0]
FileAt(files, p) == IF p \in DOMAIN files THEN files[p] ELSE NoFile

\* if (fs.existsSync(p)) fs.unlinkSync(p)
CleanupSkipped(files, p) == files
CleanupAll(files, p) == <<>>
CleanupPartial(files, p) == IF existsSync(files, p) THEN unlinkSync(files, p) ELSE files

----------------------------------------------------------------------------
(* Responses *)

NoResponse ==
    [status |-> 0, success |-> FALSE, message |-> <<>>, audioUrl |-> <<>>,
     title |-> <<>>, artist |-> <<>>, stderr |-> <<>>, results |-> <<>>, branch |-> "none"]

Failure(status, message, stderr, branch) ==
    [status |-> status, success |-> FALSE, message |-> message, audioUrl |-> <<>>,
     title |-> <<>>, artist |-> <<>>, stderr |-> stderr, results |-> <<>>, branch |-> branch]

Success(message, audioUrl, title, artist, branch) ==
    [status |-> 200, success |-> TRUE, message |-> message, audioUrl |-> audioUrl,
     title |-> title, artist |-> artist, stderr |-> <<>>, results |-> <<>>, branch |-> branch]

----------------------------------------------------------------------------
(* Subprocess outcomes *)

\* what yt-dlp / ffmpeg print on stderr when they fail
Stderrs == {<<"ERROR", "Private video">>, <<"ERROR", "timed out">>}

\* how a subprocess ends: exit status 0, or an error and its stderr
Exits == {[ok |-> TRUE, stderr |-> <<>>]} \cup {[ok |-> FALSE, stderr |-> s] : s \in Stderrs}

\* yt-dlp --print-json: fails, prints the track's JSON, or prints no JSON
MetaOutcomes == {"error", "json", "garbage"}

metadata == [title |-> <<"Track title">>, uploader |-> <<"Uploader">>]

\* error.message of a failed exec: "Command failed: <command>\n<stderr>"
ExecErrorMessage(stderr) == <<"Command failed: ">> \o stderr

\* the substrings the handlers look for in stderr, and a text none of them is in
DiagnosticTokens ==
    {"No entries found", "Sign in to confirm you're not a bot", "Please log in",
     "Unable to extract", "ERROR", "No such video", "Private video", "unavailable",
     "Unsupported URL", "timed out", "no such option", "RateLimitExceeded",
     "ffprobe", "ffmpeg", "network is unreachable"}

\* the stderr of a failed subprocess: any text made of these pieces, also the empty one
Diagnostics == UNION {[1..n -> DiagnosticTokens] : n \in 0..MaxDiagnosticLen}

\* the chain written as independent ifs: the last signature that matches wins
ClassifyDownloadErrorLastMatch(stderr) ==
    IF Includes(stderr, "ffprobe") \/ Includes(stderr, "ffmpeg")
    THEN <<"Audio conversion tools (ffmpeg/ffprobe) not found or not working on server. Check server setup.">>
    ELSE IF Includes(stderr, "RateLimitExceeded")
    THEN <<"Source website rate limit exceeded. Please try again later.">>
    ELSE IF Includes(stderr, "no such option")
    THEN <<"An unsupported yt-dlp option was used. Please check backend logs or update yt-dlp.">>
    ELSE IF Includes(stderr, "timed out")
    THEN <<"Download timed out. The server might be too slow or network issues.">>
    ELSE IF Includes(stderr, "Unsupported URL")
    THEN <<"Unsupported URL for download. Please ensure it is a valid video/audio page.">>
    ELSE IF Includes(stderr, "No such video") \/ Includes(stderr, "Private video")
            \/ Includes(stderr, "unavailable")
    THEN <<"Track not found, unavailable, or is private.">>
    ELSE IF Includes(stderr, "Sign in to confirm you're not a bot") \/ Includes(stderr, "Please log in")
    THEN <<"Download blocked by source website (bot detection/login required).">>
    ELSE <<"Failed to download or convert: ", "Command failed: ">> \o stderr

\* the if / else-if chain of the download callback
ClassifyDownloadError(stderr) ==
    IF Includes(stderr, "Sign in to confirm you're not a bot") \/ Includes(stderr, "Please log in")
    THEN <<"Download blocked by source website (bot detection/login required).">>
    ELSE IF Includes(stderr, "No such video") \/ Includes(stderr, "Private video")
            \/ Includes(stderr, "unavailable")
    THEN <<"Track not found, unavailable, or is private.">>
    ELSE IF Includes(stderr, "Unsupported URL")
    THEN <<"Unsupported URL for download. Please ensure it is a valid video/audio page.">>
    ELSE IF Includes(stderr, "timed out")
    THEN <<"Download timed out. The server might be too slow or network issues.">>
    ELSE IF Includes(stderr, "no such option")
    THEN <<"An unsupported yt-dlp option was used. Please check backend logs or update yt-dlp.">>
    ELSE IF Includes(stderr, "RateLimitExceeded")
    THEN <<"Source website rate limit exceeded. Please try again later.">>
    ELSE IF Includes(stderr, "ffprobe") \/ Includes(stderr, "ffmpeg")
    THEN <<"Audio conversion tools (ffmpeg/ffprobe) not found or not working on server. Check server setup.">>
    ELSE <<"Failed to download or convert: ">> \o ExecErrorMessage(stderr)

----------------------------------------------------------------------------
(* Search: queries, extractor output, the cache *)

\* the q of GET /search: absent, empty, or a query
Queries == {Undefined, Str(<<>>), Str(<<"daft punk">>), Str(<<"Daft Punk">>)}

\* one line of yt-dlp --dump-json --flat-playlist: the JSON of an entry, or
\* something JSON.parse throws on
SoundcloudEntry(query) ==
    [json |-> TRUE, extractor_key |-> <<"Soundcloud">>, title |-> <<"sc: ">> \o query,
     url |-> <<"https://", "soundcloud.com", "/artist/track-a">>]
YoutubeEntry(query) ==
    [json |-> TRUE, extractor_key |-> <<"Youtube">>, title |-> <<"yt: ">> \o query,
     url |-> <<"https://www.", "youtube.com/watch", "?v=a">>]
JunkLine ==
    [json |-> FALSE, extractor_key |-> <<>>, title |-> <<>>, url |-> <<>>]

\* the lines a run may print. The cached handler keeps every line that parses,
\* whatever its extractor, so one kind of entry stands for them all there.
Lines(query) ==
    IF variant = "remote" THEN {SoundcloudEntry(query), JunkLine}
    ELSE {SoundcloudEntry(query), YoutubeEntry(query), JunkLine}

\* the outputs of an extractor run for a query
Stdouts(query) == UNION {[1..n -> Lines(query)] : n \in 0..MaxLines}

\* the ways an extractor run for a query ends: an error and its stderr, or
\* exit status 0 and its output
Runs(query) ==
    {[ok |-> FALSE, stderr |-> e, stdout |-> <<>>] : e \in Stderrs}
    \cup {[ok |-> TRUE, stderr |-> <<>>, stdout |-> o] : o \in Stdouts(query)}

\* { title, url, ... } of an entry
Item(line) == [title |-> line.title, url |-> line.url]

RECURSIVE FilterMap(_, _)
\* lines.filter(Keep).map(Item), with Keep given as the set of lines kept
FilterMap(lines, kept) ==
    IF lines = <<>> THEN <<>>
    ELSE (IF Head(lines) \in kept THEN <<Item(Head(lines))>> ELSE <<>>)
         \o FilterMap(Tail(lines), kept)

\* server.js 340-362: the lines that parse and come from SoundCloud
SoundcloudResults(stdout) ==
    FilterMap(stdout, {l \in {stdout[i] : i \in 1..Len(stdout)} :
                         l.json /\ Includes(l.extractor_key, "Soundcloud")})

\* part_000 120-135: the lines that parse
ParsedResults(stdout) ==
    FilterMap(stdout, {l \in {stdout[i] : i \in 1..Len(stdout)} : l.json})

\* server.js 77-93: the entries with a YouTube video url
YouTubeResults(entries) ==
    FilterMap(entries, {l \in {entries[i] : i \in 1..Len(entries)} :
                         Includes(l.url, "youtube.com/watch") \/ Includes(l.url, "youtu.be/")})

\* the if / else-if chain of the search callback
ClassifySearchError(stderr) ==
    IF Includes(stderr, "No entries found")
    THEN <<"No songs found on SoundCloud for this query. Try a different name.">>
    ELSE IF Includes(stderr, "Sign in to confirm you're not a bot") \/ Includes(stderr, "Please log in")
    THEN <<"SoundCloud search blocked (bot detection/login required).">>
    ELSE IF Includes(stderr, "Unable to extract") \/ Includes(stderr, "ERROR")
    THEN <<"Could not process search results from SoundCloud. It might be a temporary issue or content restrictions.">>
    ELSE IF Includes(stderr, "timed out")
    THEN <<"SoundCloud search timed out. The server might be too slow or network issues.">>
    ELSE IF Includes(stderr, "no such option")
    THEN <<"An unsupported yt-dlp option was used. Please check backend logs or update yt-dlp.">>
    ELSE IF Includes(stderr, "RateLimitExceeded")
    THEN <<"SoundCloud rate limit exceeded. Please try again later.">>
    ELSE <<"Failed to perform search: ">> \o ExecErrorMessage(stderr)

SearchFailure(status, message, stderr, branch) == Failure(status, message, stderr, branch)

SearchResults(success, message, results, branch) ==
    [status |-> 200, success |-> success, message |-> message, audioUrl |-> <<>>,
     title |-> <<>>, artist |-> <<>>, stderr |-> <<>>, results |-> results, branch |-> branch]

\* new NodeCache({ stdTTL: 3600 })
stdTTL == 3600
\* the clock moves by this much in one step
TickSeconds == (stdTTL \div 3) * 2

\* searchCache.get(key) finds an entry that has not expired: one that never
\* expires (t = 0) or whose time t has not passed
CacheHit(cache, key, time) ==
    key \in DOMAIN cache /\ ~(cache[key].t # 0 /\ cache[key].t < time)
\* searchCache.set(key, value): the entry expires stdTTL from now; `set` keeps
\* the time it was stored. With a ttl of 0 given, it would never expire.
CacheSetNoTtl(cache, key, value, time) ==
    WriteFile(cache, key, [v |-> value, t |-> 0, set |-> time])
CacheSet(cache, key, value, time) ==
    WriteFile(cache, key, [v |-> value, t |-> time + stdTTL, set |-> time])

\* const cacheKey = `search_${query}`
CacheKeyLowerCase(query) == <<"search_">> \o (IF query = <<"Daft Punk">> THEN <<"daft punk">> ELSE query)
CacheKey(query) == <<"search_">> \o query

\* the output of a run has lines and none of them parses
Unparsable(stdout) == stdout # <<>> /\ \A i \in 1..Len(stdout) : ~stdout[i].json

\* the time the entry of a key was stored, -1 if there is none
EntrySet(cache, key) == IF key \in DOMAIN cache THEN cache[key].set ELSE -1

----------------------------------------------------------------------------
(* Requests *)

Requests == 1..Len(reqs)
Downloads == {r \in Requests : reqs[r].route = "download"}
Searches == {r \in Requests : reqs[r].route = "search"}

\* the Converter of a request is running: the yt-dlp -x subprocess, or in the
\* youtube program the yt-dlp --get-url and ffmpeg pair
Converting(q) == q.pc \in {"geturl", "converting"}

\* a request as it arrives
NewRequest(route, input) ==
    [route |-> route, input |-> input, pc |-> "arrived",
     path |-> NoPath, object |-> NoPath, publicAudioUrl |-> <<>>,
     error |-> FALSE, stderr |-> <<>>,
     procs |-> <<>>,        \* the subprocesses and store calls it has started
     cacheOps |-> <<>>,     \* its reads and writes of searchCache
     joined |-> {},         \* the requests for the same url converting when it arrived
     found |-> "none",      \* what its existence check found at the target
     results |-> <<>>,      \* formattedResults of the first search run
     wrote |-> FALSE,       \* its Converter has written to the target
     priorSuccess |-> {},   \* the requests for the same url answered with success before it arrived
     prior |-> {},          \* the requests for the same url that arrived before it
     priorFailure |-> {},   \* those of them whose conversion had failed and been answered
     target |-> NoFile,     \* the local file at its path when its response was sent
     artifact |-> NoFile,   \* what the store held at its location when its response was sent
     held |-> NoFile,       \* what the store held at its location when it was checked
     at |-> now,            \* the time it arrived
     answered |-> -1,       \* the time its response was sent
     entrySet |-> -1,       \* when the cache entry of its key, if any, had been stored
     checkThrew |-> FALSE,  \* its existence check or url signing raised an error, the object being there
     fallbackBetter |-> FALSE, \* its fallback run succeeded with more usable results than the first run
     sent |-> 0,            \* the responses sent for it
     cancelled |-> FALSE,   \* its client has closed the connection
     cacheKey |-> <<>>,     \* the key it read or wrote the search cache under
     unparsable |-> FALSE,  \* no line of the output of its extractor run parsed
     fresh |-> {},          \* the searches for the same q answered from an extractor run
                            \* with success no more than stdTTL before it arrived
     boot |-> 0,            \* the restarts of the process before it arrived
     response |-> NoResponse]

Joined(body) ==
    {i \in Downloads : reqs[i].input = body /\ Converting(reqs[i])}

PriorSuccess(body) ==
    {i \in Downloads : reqs[i].input = body /\ reqs[i].response.success}

Prior(body) ==
    {i \in Downloads : reqs[i].input = body}

PriorFailure(body) ==
    {i \in Downloads : reqs[i].input = body /\ reqs[i].response.branch = "convert_error"}

FreshSearches(query) ==
    {i \in Searches : /\ reqs[i].input = query
                      /\ reqs[i].response.success
                      /\ reqs[i].response.branch \in {"results", "fallback_results"}
                      /\ now <= reqs[i].answered + stdTTL}

NewSearch(query) == [NewRequest("search", query) EXCEPT !.fresh = FreshSearches(query)]

\* the restarts of the process so far
Restarts == Cardinality({i \in Requests : reqs[i].route = "restart"})

NewDownload(body) ==
    [NewRequest("download", body) EXCEPT !.joined = Joined(body),
                                         !.priorSuccess = PriorSuccess(body),
                                         !.prior = Prior(body),
                                         !.priorFailure = PriorFailure(body),
                                         !.boot = Restarts]

\* the handler ends without a res.json
RespondedWithoutSending(q, response, files) == [q EXCEPT !.pc = "done"]

\* res.status(...).json(...) or res.json(...), with the local files as they
\* are when it is sent
RespondedWith(q, response, files) ==
    [q EXCEPT !.pc = "done", !.response = response, !.answered = now, !.sent = @ + 1,
              !.target = FileAt(files, q.path),
              !.artifact = IF variant = "remote" THEN FileAt(bucket, q.object)
                           ELSE FileAt(files, q.path)]
Responded(q, response) == RespondedWith(q, response, fs)
Started(q, proc, pc) == [q EXCEPT !.pc = pc, !.procs = Append(@, proc)]

----------------------------------------------------------------------------
(* Start-up *)

Variants == {"youtube", "local", "remote"}

Init ==
    /\ variant \in Variants
    /\ \/ variant = "remote" /\ firebaseAdminInitialized \in BOOLEAN
       \/ variant # "remote" /\ firebaseAdminInitialized = FALSE
    /\ fs = <<>>
    /\ bucket = <<>>
    /\ searchCache = <<>>
    /\ now = 0
    /\ reqs = <<>>

----------------------------------------------------------------------------
(* The Converter subprocess, in all three programs *)

\* the subprocess writes its output file before it is done
ConverterWrites(r) ==
    /\ reqs[r].pc = "converting"
    /\ ~reqs[r].wrote
    /\ fs' = WriteFile(fs, reqs[r].path, File("partial", r))
    /\ reqs' = [reqs EXCEPT ![r].wrote = TRUE]
    /\ UNCHANGED <<variant, firebaseAdminInitialized, bucket, searchCache, now>>

\* one conversion at a time: the subprocess of a request exits only after
\* those of the requests before it
ConverterExitsInTurn(r, exit) ==
    /\ \A i \in 1..(r - 1) : ~Converting(reqs[i])
    /\ reqs[r].pc = "converting"
    /\ IF exit.ok
       THEN /\ fs' = WriteFile(fs, reqs[r].path, File("complete", r))
            /\ reqs' = [reqs EXCEPT ![r].pc = "converted", ![r].wrote = TRUE]
       ELSE /\ fs' = fs
            /\ reqs' = [reqs EXCEPT ![r].pc = "converted", ![r].error = TRUE,
                                    ![r].stderr = exit.stderr]
    /\ UNCHANGED <<variant, firebaseAdminInitialized, bucket, searchCache, now>>

\* the subprocess exits: with status 0 and the finished file, or with an
\* error, leaving what it wrote
ConverterExits(r, exit) ==
    /\ reqs[r].pc = "converting"
    /\ IF exit.ok
       THEN /\ fs' = WriteFile(fs, reqs[r].path, File("complete", r))
            /\ reqs' = [reqs EXCEPT ![r].pc = "converted", ![r].wrote = TRUE]
       ELSE /\ fs' = fs
            /\ reqs' = [reqs EXCEPT ![r].pc = "converted", ![r].error = TRUE,
                                    ![r].stderr = exit.stderr]
    /\ UNCHANGED <<variant, firebaseAdminInitialized, bucket, searchCache, now>>

----------------------------------------------------------------------------
(* /download-mp3, local store: src/server.js 433-558 *)

audioDir == "audio"
hostname == "host"

LocalDownloadMp3(body) ==
    /\ variant = "local"
    /\ Cardinality(Downloads) < MaxRequests
    /\ LET url == body
           q == NewDownload(body)
       IN IF Falsy(url)
          THEN reqs' = Append(reqs, Responded(q,
                          Failure(400, <<"Source URL is required for download.">>, <<>>, "invalid")))
          ELSE LET hash == md5(url.text)
                   outputFileName == hash \o <<".mp3">>
                   outputFilePath == <<audioDir>> \o outputFileName
                   publicAudioUrl == <<"https://", hostname, "/audio/">> \o outputFileName
                   q1 == [q EXCEPT !.path = outputFilePath, !.publicAudioUrl = publicAudioUrl,
                                   !.held = FileAt(fs, outputFilePath)]
               IN IF existsSync(fs, outputFilePath)
                  THEN reqs' = Append(reqs, Started([q1 EXCEPT !.found = fs[outputFilePath].content],
                                                    "metadata", "metadata_existing"))
                  ELSE reqs' = Append(reqs, Started(q1, "convert", "converting"))
    /\ UNCHANGED <<variant, firebaseAdminInitialized, fs, bucket, searchCache, now>>

\* the callback of exec(command): server.js 492-530
LocalDownloadCallback(r) ==
    /\ variant = "local"
    /\ reqs[r].pc = "converted"
    /\ IF reqs[r].error
       THEN /\ fs' = CleanupPartial(fs, reqs[r].path)
            /\ reqs' = [reqs EXCEPT ![r] = RespondedWith(@,
                          Failure(500, ClassifyDownloadError(reqs[r].stderr), reqs[r].stderr,
                                  "convert_error"),
                          CleanupPartial(fs, reqs[r].path))]
       ELSE /\ fs' = fs
            /\ reqs' = [reqs EXCEPT ![r] = Started(@, "metadata", "metadata_new")]
    /\ UNCHANGED <<variant, firebaseAdminInitialized, bucket, searchCache, now>>

\* the callback of exec(metadataCommand) for a file that was there: server.js 454-480
LocalExistingMetadataCallback(r, outcome) ==
    /\ variant = "local"
    /\ reqs[r].pc = "metadata_existing"
    /\ reqs' = [reqs EXCEPT ![r] = Responded(@,
          CASE outcome = "error" ->
                 Success(<<"Audio already processed and available.">>, reqs[r].publicAudioUrl,
                         <<"Previously Downloaded Track (ID: ", reqs[r].path[2], ")">>,
                         <<"Unknown">>, "existing")
            [] outcome = "json" ->
                 Success(<<"Audio already processed and available.">>, reqs[r].publicAudioUrl,
                         metadata.title, metadata.uploader, "existing")
            [] outcome = "garbage" ->
                 Failure(500, <<"Failed to parse metadata for existing file.">>, <<>>,
                         "existing_parse_error"))]
    /\ UNCHANGED <<variant, firebaseAdminInitialized, fs, bucket, searchCache, now>>

\* the callback of exec(metadataCommand) after a download: server.js 530-556
LocalMetadataCallback(r, outcome) ==
    /\ variant = "local"
    /\ reqs[r].pc = "metadata_new"
    /\ reqs' = [reqs EXCEPT ![r] = Responded(@,
          CASE outcome = "error" ->
                 Success(<<"Audio downloaded and converted successfully, but metadata extraction failed.">>,
                         reqs[r].publicAudioUrl, <<"Downloaded Track (Metadata N/A)">>,
                         <<"Unknown">>, "converted")
            [] outcome = "json" ->
                 Success(<<"Audio downloaded and converted successfully!">>, reqs[r].publicAudioUrl,
                         metadata.title, metadata.uploader, "converted")
            [] outcome = "garbage" ->
                 Failure(500, <<"Failed to parse metadata after download.">>, <<>>,
                         "parse_error"))]
    /\ UNCHANGED <<variant, firebaseAdminInitialized, fs, bucket, searchCache, now>>

----------------------------------------------------------------------------
(* /download-mp3, remote store: src/unnamed/part_000 153-329 *)

audioTempDir == "audio_temp"

\* fileRef.getSignedUrl(...)[0]
SignedUrl(object) == <<"https://storage.googleapis.com/">> \o object \o <<"?signature">>

\* the handler without its firebaseAdminInitialized guard
RemoteDownloadMp3Unguarded(body) ==
    /\ variant = "remote"
    /\ Cardinality(Downloads) < MaxRequests
    /\ LET url == body
           q == NewDownload(body)
       IN IF Falsy(url)
          THEN reqs' = Append(reqs, Responded(q,
                          Failure(400, <<"Source URL is required for download.">>, <<>>, "invalid")))
          ELSE LET filenameHash == md5(url.text)
                   localOutputFileName == filenameHash \o <<".mp3">>
                   localOutputFilePath == <<audioTempDir>> \o localOutputFileName
                   firebaseStoragePath == <<"audio/">> \o localOutputFileName
               IN reqs' = Append(reqs, Started([q EXCEPT !.path = localOutputFilePath,
                                                         !.object = firebaseStoragePath],
                                               "store.exists", "checking"))
    /\ UNCHANGED <<variant, firebaseAdminInitialized, fs, bucket, searchCache, now>>

RemoteDownloadMp3(body) ==
    /\ variant = "remote"
    /\ Cardinality(Downloads) < MaxRequests
    /\ LET url == body
           q == NewDownload(body)
       IN IF ~firebaseAdminInitialized
          THEN reqs' = Append(reqs, Responded(q,
                          Failure(500, <<"Firebase Admin SDK is not initialized. Cannot process download and upload to storage.">>,
                                  <<>>, "not_initialized")))
          ELSE IF Falsy(url)
          THEN reqs' = Append(reqs, Responded(q,
                          Failure(400, <<"Source URL is required for download.">>, <<>>, "invalid")))
          ELSE LET filenameHash == md5(url.text)
                   localOutputFileName == filenameHash \o <<".mp3">>
                   localOutputFilePath == <<audioTempDir>> \o localOutputFileName
                   firebaseStoragePath == <<"audio/">> \o localOutputFileName
               IN reqs' = Append(reqs, Started([q EXCEPT !.path = localOutputFilePath,
                                                         !.object = firebaseStoragePath],
                                               "store.exists", "checking"))
    /\ UNCHANGED <<variant, firebaseAdminInitialized, fs, bucket, searchCache, now>>

\* the check with a catch that answers 500 and does not go on
RemoteStoreCheckFails(r, throws) ==
    /\ variant = "remote"
    /\ reqs[r].pc = "checking"
    /\ IF ~throws /\ existsSync(bucket, reqs[r].object)
       THEN reqs' = [reqs EXCEPT ![r] =
                        Started([@ EXCEPT !.publicAudioUrl = SignedUrl(reqs[r].object),
                                          !.found = bucket[reqs[r].object].content,
                                          !.held = FileAt(bucket, reqs[r].object)],
                                "metadata", "metadata_existing")]
       ELSE IF throws
       THEN reqs' = [reqs EXCEPT ![r] =
                        Responded([@ EXCEPT !.held = FileAt(bucket, reqs[r].object),
                                            !.checkThrew = existsSync(bucket, reqs[r].object)],
                                  Failure(500, <<"Failed to check cloud storage.">>, <<>>, "check_error"))]
       ELSE reqs' = [reqs EXCEPT ![r] =
                        Started([@ EXCEPT !.held = FileAt(bucket, reqs[r].object)],
                                "convert", "converting")]
    /\ UNCHANGED <<variant, firebaseAdminInitialized, fs, bucket, searchCache, now>>

\* await fileRef.exists() and, for an object that is there, await
\* fileRef.getSignedUrl(): part_000 174-220. Either may throw, and the catch
\* goes on to the download.
RemoteStoreCheckReturns(r, throws) ==
    /\ variant = "remote"
    /\ reqs[r].pc = "checking"
    /\ IF ~throws /\ existsSync(bucket, reqs[r].object)
       THEN reqs' = [reqs EXCEPT ![r] =
                        Started([@ EXCEPT !.publicAudioUrl = SignedUrl(reqs[r].object),
                                          !.found = bucket[reqs[r].object].content,
                                          !.held = FileAt(bucket, reqs[r].object)],
                                "metadata", "metadata_existing")]
       ELSE reqs' = [reqs EXCEPT ![r] =
                        Started([@ EXCEPT !.held = FileAt(bucket, reqs[r].object),
                                          !.checkThrew = throws /\ existsSync(bucket, reqs[r].object)],
                                "convert", "converting")]
    /\ UNCHANGED <<variant, firebaseAdminInitialized, fs, bucket, searchCache, now>>

\* the callback answering with the url without waiting for an upload
RemoteDownloadCallbackNoUpload(r) ==
    /\ variant = "remote"
    /\ reqs[r].pc = "converted"
    /\ IF reqs[r].error
       THEN /\ fs' = CleanupPartial(fs, reqs[r].path)
            /\ reqs' = [reqs EXCEPT ![r] = RespondedWith(@,
                          Failure(500, ClassifyDownloadError(reqs[r].stderr), reqs[r].stderr,
                                  "convert_error"),
                          CleanupPartial(fs, reqs[r].path))]
       ELSE /\ fs' = fs
            /\ reqs' = [reqs EXCEPT ![r] = Responded(@,
                          Success(<<"Audio downloaded and uploaded successfully!">>,
                                  SignedUrl(reqs[r].object), <<"Unknown Title">>,
                                  <<"Unknown Artist">>, "converted"))]
    /\ UNCHANGED <<variant, firebaseAdminInitialized, bucket, searchCache, now>>

\* the callback of exec(command), up to await bucket.upload(): part_000 227-266
RemoteDownloadCallback(r) ==
    /\ variant = "remote"
    /\ reqs[r].pc = "converted"
    /\ IF reqs[r].error
       THEN /\ fs' = CleanupPartial(fs, reqs[r].path)
            /\ reqs' = [reqs EXCEPT ![r] = RespondedWith(@,
                          Failure(500, ClassifyDownloadError(reqs[r].stderr), reqs[r].stderr,
                                  "convert_error"),
                          CleanupPartial(fs, reqs[r].path))]
       ELSE /\ fs' = fs
            /\ reqs' = [reqs EXCEPT ![r] = Started(@, "store.upload", "uploading")]
    /\ UNCHANGED <<variant, firebaseAdminInitialized, bucket, searchCache, now>>

UploadOutcomes == {"ok", "upload_throws", "sign_throws"}

\* bucket.upload() and getSignedUrl() return or throw: part_000 266-301.
\* An upload of a file that is no longer there throws.
RemoteUploadReturns(r, outcome) ==
    /\ variant = "remote"
    /\ reqs[r].pc = "uploading"
    /\ outcome # "upload_throws" => existsSync(fs, reqs[r].path)
    /\ bucket' = IF outcome = "upload_throws" THEN bucket
                 ELSE WriteFile(bucket, reqs[r].object, File(fs[reqs[r].path].content, r))
    /\ fs' = CleanupPartial(fs, reqs[r].path)
    /\ reqs' = [reqs EXCEPT ![r] =
          CASE outcome = "ok" ->
                 Started([@ EXCEPT !.publicAudioUrl = SignedUrl(reqs[r].object)],
                         "metadata", "metadata_new")
            [] outcome = "upload_throws" ->
                 RespondedWith(@, Failure(500, <<"Failed to upload audio to cloud storage: ", "upload failed">>,
                                          <<>>, "upload_error"),
                               CleanupPartial(fs, reqs[r].path))
            [] outcome = "sign_throws" ->
                 RespondedWith(@, Failure(500, <<"Failed to upload audio to cloud storage: ", "signing failed">>,
                                          <<>>, "upload_error"),
                               CleanupPartial(fs, reqs[r].path))]
    /\ UNCHANGED <<variant, firebaseAdminInitialized, searchCache, now>>

\* the callback of the metadata exec for an object that was there: part_000 187-213
RemoteExistingMetadataCallback(r, outcome) ==
    /\ variant = "remote"
    /\ reqs[r].pc = "metadata_existing"
    /\ reqs' = [reqs EXCEPT ![r] = Responded(@,
          CASE outcome = "error" ->
                 Success(<<"Audio already processed and available.">>, reqs[r].publicAudioUrl,
                         <<"Previously Downloaded Track (ID: ", reqs[r].path[2], ")">>,
                         <<"Unknown">>, "existing")
            [] outcome = "json" ->
                 Success(<<"Audio already processed and available.">>, reqs[r].publicAudioUrl,
                         metadata.title, metadata.uploader, "existing")
            [] outcome = "garbage" ->
                 Failure(500, <<"Failed to parse metadata for existing file from Firebase Storage.">>,
                         <<>>, "existing_parse_error"))]
    /\ UNCHANGED <<variant, firebaseAdminInitialized, fs, bucket, searchCache, now>>

\* the callback of the metadata exec after download and upload: part_000 301-327
RemoteMetadataCallback(r, outcome) ==
    /\ variant = "remote"
    /\ reqs[r].pc = "metadata_new"
    /\ reqs' = [reqs EXCEPT ![r] = Responded(@,
          CASE outcome = "error" ->
                 Success(<<"Audio downloaded, uploaded, but metadata extraction failed.">>,
                         reqs[r].publicAudioUrl, <<"Downloaded Track (Metadata N/A)">>,
                         <<"Unknown">>, "converted")
            [] outcome = "json" ->
                 Success(<<"Audio downloaded, converted, and uploaded to Firebase Storage!">>,
                         reqs[r].publicAudioUrl, metadata.title, metadata.uploader, "converted")
            [] outcome = "garbage" ->
                 Failure(500, <<"Failed to parse metadata after download and upload.">>, <<>>,
                         "parse_error"))]
    /\ UNCHANGED <<variant, firebaseAdminInitialized, fs, bucket, searchCache, now>>

----------------------------------------------------------------------------
(* /download-mp3, YouTube: src/server.js 154-251 *)

downloadsDir == "downloads"
BASE_URL == "http://localhost:3000"

\* the uuids drawn so far
UuidsDrawn == Cardinality({i \in Downloads : reqs[i].path # NoPath})

YouTubeDownloadMp3(body) ==
    /\ variant = "youtube"
    /\ Cardinality(Downloads) < MaxRequests
    /\ LET url == body
           q == NewDownload(body)
       IN IF Falsy(url)
          THEN reqs' = Append(reqs, Responded(q,
                          Failure(400, <<"YouTube URL is required.">>, <<>>, "invalid")))
          ELSE IF ~Includes(url.text, "youtube.com") /\ ~Includes(url.text, "youtu.be")
          THEN reqs' = Append(reqs, Responded(q,
                          Failure(400, <<"Invalid YouTube URL provided.">>, <<>>, "invalid")))
          ELSE LET uniqueId == uuidv4(UuidsDrawn + 1)
                   mp3FilePath == <<downloadsDir, uniqueId, ".mp3">>
               IN reqs' = Append(reqs, Started([q EXCEPT !.path = mp3FilePath], "info", "info"))
    /\ UNCHANGED <<variant, firebaseAdminInitialized, fs, bucket, searchCache, now>>

\* the catch of the handler: server.js 243-250
YouTubeCatch(q, message, branch) ==
    RespondedWith(q, Failure(500, message, <<>>, branch), CleanupPartial(fs, q.path))

\* await youtubeDl(url, {dumpSingleJson}) returns or throws: server.js 172-198
YouTubeInfoReturns(r, exit) ==
    /\ variant = "youtube"
    /\ reqs[r].pc = "info"
    /\ IF exit.ok
       THEN /\ fs' = fs
            /\ reqs' = [reqs EXCEPT ![r] = Started(@, "geturl", "geturl")]
       ELSE /\ fs' = CleanupPartial(fs, reqs[r].path)
            /\ reqs' = [reqs EXCEPT ![r] =
                          YouTubeCatch(@, ExecErrorMessage(exit.stderr), "info_error")]
    /\ UNCHANGED <<variant, firebaseAdminInitialized, bucket, searchCache, now>>

\* audioProcess.on('close'): server.js 205-226. ok: exit code 0 and an http url
YouTubeGetUrlClose(r, exit) ==
    /\ variant = "youtube"
    /\ reqs[r].pc = "geturl"
    /\ IF exit.ok
       THEN /\ fs' = fs
            /\ reqs' = [reqs EXCEPT ![r] = Started(@, "ffmpeg", "converting")]
       ELSE /\ fs' = CleanupPartial(fs, reqs[r].path)
            /\ reqs' = [reqs EXCEPT ![r] =
                          YouTubeCatch([@ EXCEPT !.error = TRUE, !.stderr = exit.stderr],
                                       <<"yt-dlp failed to get stream URL (exit code: 1). Stderr: ">> \o exit.stderr,
                                       "convert_error")]
    /\ UNCHANGED <<variant, firebaseAdminInitialized, bucket, searchCache, now>>

\* ffmpeg's 'end' or 'error' event and the rest of the handler: server.js 213-250
YouTubeConvertCallback(r) ==
    /\ variant = "youtube"
    /\ reqs[r].pc = "converted"
    /\ IF reqs[r].error
       THEN /\ fs' = CleanupPartial(fs, reqs[r].path)
            /\ reqs' = [reqs EXCEPT ![r] =
                          YouTubeCatch(@, <<"FFmpeg conversion failed: ">> \o reqs[r].stderr,
                                       "convert_error")]
       ELSE /\ fs' = fs
            /\ reqs' = [reqs EXCEPT ![r] = Responded(@,
                          Success(<<"Download and conversion successful!">>,
                                  <<BASE_URL, "/downloads/", reqs[r].path[2], ".mp3">>,
                                  metadata.title, metadata.uploader, "converted"))]
    /\ UNCHANGED <<variant, firebaseAdminInitialized, bucket, searchCache, now>>

----------------------------------------------------------------------------
(* GET /search, YouTube: src/server.js 50-111 *)

YouTubeSearch(query) ==
    /\ variant = "youtube"
    /\ Cardinality(Searches) < MaxSearches
    /\ LET searchQuery == query
           q == NewSearch(query)
       IN IF Falsy(searchQuery)
          THEN reqs' = Append(reqs, Responded(q,
                          SearchFailure(400, <<"Search query is required.">>, <<>>, "invalid")))
          ELSE reqs' = Append(reqs, Started(q, "search", "searching"))
    /\ UNCHANGED <<variant, firebaseAdminInitialized, fs, bucket, searchCache, now>>

\* await youtubeDl(searchQuery, ...) returns the parsed entries or throws
YouTubeSearchReturns(r, run) ==
    /\ variant = "youtube"
    /\ reqs[r].pc = "searching"
    /\ \A i \in 1..Len(run.stdout) : run.stdout[i].json
    /\ IF ~run.ok
       THEN reqs' = [reqs EXCEPT ![r] = Responded(@,
                        SearchFailure(500, ExecErrorMessage(run.stderr), <<>>, "search_error"))]
       ELSE LET formattedResults == YouTubeResults(run.stdout)
            IN IF Len(formattedResults) > 0
               THEN reqs' = [reqs EXCEPT ![r] = Responded(@,
                                SearchResults(TRUE, <<>>, formattedResults, "results"))]
               ELSE reqs' = [reqs EXCEPT ![r] = Responded(@,
                                SearchResults(FALSE, <<"No relevant video results found.">>, <<>>,
                                              "no_results"))]
    /\ UNCHANGED <<variant, firebaseAdminInitialized, fs, bucket, searchCache, now>>

----------------------------------------------------------------------------
(* GET /search, SoundCloud: src/server.js 295-426 *)

LocalSearch(query) ==
    /\ variant = "local"
    /\ Cardinality(Searches) < MaxSearches
    /\ LET q == NewSearch(query)
       IN IF Falsy(query)
          THEN reqs' = Append(reqs, Responded(q,
                          SearchFailure(400, <<"Search query is required.">>, <<>>, "invalid")))
          ELSE reqs' = Append(reqs, Started(q, "search", "searching"))
    /\ UNCHANGED <<variant, firebaseAdminInitialized, fs, bucket, searchCache, now>>

\* stdout.trim().split('\n'): at least one line, be it the empty one
RawResultsLength(stdout) == IF stdout = <<>> THEN 1 ELSE Len(stdout)

\* the callback without the return that follows the start of the fallback
\* search: it goes on to the responses below
LocalSearchCallbackNoReturn(r, run) ==
    /\ variant = "local"
    /\ reqs[r].pc = "searching"
    /\ IF ~run.ok
       THEN reqs' = [reqs EXCEPT ![r] = Responded(@,
                        SearchFailure(500, ClassifySearchError(run.stderr), run.stderr,
                                      "search_error"))]
       ELSE LET formattedResults == SoundcloudResults(run.stdout)
            IN IF Len(formattedResults) <= 1
               THEN reqs' = [reqs EXCEPT ![r] =
                                Started(Responded([@ EXCEPT !.results = formattedResults],
                                            IF Len(formattedResults) = 0 /\ RawResultsLength(run.stdout) > 0
                                            THEN SearchResults(FALSE, <<"No relevant SoundCloud songs found. Try a more specific query.">>,
                                                               <<>>, "no_results")
                                            ELSE SearchResults(TRUE, <<>>, formattedResults, "results")),
                                        "fallback", "fallback")]
               ELSE IF Len(formattedResults) = 0 /\ RawResultsLength(run.stdout) > 0
               THEN reqs' = [reqs EXCEPT ![r] = Responded(@,
                                SearchResults(FALSE, <<"No relevant SoundCloud songs found. Try a more specific query.">>,
                                              <<>>, "no_results"))]
               ELSE reqs' = [reqs EXCEPT ![r] = Responded(@,
                                SearchResults(TRUE, <<>>, formattedResults, "results"))]
    /\ UNCHANGED <<variant, firebaseAdminInitialized, fs, bucket, searchCache, now>>

\* the callback of exec(command): server.js 307-425
LocalSearchCallback(r, run) ==
    /\ variant = "local"
    /\ reqs[r].pc = "searching"
    /\ IF ~run.ok
       THEN reqs' = [reqs EXCEPT ![r] = Responded(@,
                        SearchFailure(500, ClassifySearchError(run.stderr), run.stderr,
                                      "search_error"))]
       ELSE LET formattedResults == SoundcloudResults(run.stdout)
            IN IF Len(formattedResults) <= 1
               THEN reqs' = [reqs EXCEPT ![r] =
                                Started([@ EXCEPT !.results = formattedResults],
                                        "fallback", "fallback")]
               ELSE IF Len(formattedResults) = 0 /\ RawResultsLength(run.stdout) > 0
               THEN reqs' = [reqs EXCEPT ![r] = Responded(@,
                                SearchResults(FALSE, <<"No relevant SoundCloud songs found. Try a more specific query.">>,
                                              <<>>, "no_results"))]
               ELSE reqs' = [reqs EXCEPT ![r] = Responded(@,
                                SearchResults(TRUE, <<>>, formattedResults, "results"))]
    /\ UNCHANGED <<variant, firebaseAdminInitialized, fs, bucket, searchCache, now>>

\* the run succeeded with more usable results than there were
Better(run, formattedResults) ==
    run.ok /\ Len(SoundcloudResults(run.stdout)) > Len(formattedResults)

\* the callback taking the fallback results when they are as many
LocalFallbackCallbackNotWorse(r, run) ==
    /\ variant = "local"
    /\ reqs[r].pc = "fallback"
    /\ LET formattedResults == reqs[r].results
           fallbackFormattedResults == SoundcloudResults(run.stdout)
       IN IF run.ok /\ run.stdout # <<>>
             /\ Len(fallbackFormattedResults) >= Len(formattedResults)
          THEN reqs' = [reqs EXCEPT ![r] = Responded([@ EXCEPT !.fallbackBetter = Better(run, formattedResults)],
                           SearchResults(TRUE, <<>>, fallbackFormattedResults, "fallback_results"))]
          ELSE IF Len(formattedResults) = 0
          THEN reqs' = [reqs EXCEPT ![r] = Responded([@ EXCEPT !.fallbackBetter = Better(run, formattedResults)],
                           SearchResults(FALSE, <<"No relevant SoundCloud songs found. Try a more specific query.">>,
                                         <<>>, "no_results"))]
          ELSE reqs' = [reqs EXCEPT ![r] = Responded([@ EXCEPT !.fallbackBetter = Better(run, formattedResults)],
                           SearchResults(TRUE, <<>>, formattedResults, "results"))]
    /\ UNCHANGED <<variant, firebaseAdminInitialized, fs, bucket, searchCache, now>>

\* the callback of exec(fallbackCommand): server.js 373-411
LocalFallbackCallback(r, run) ==
    /\ variant = "local"
    /\ reqs[r].pc = "fallback"
    /\ LET formattedResults == reqs[r].results
           fallbackFormattedResults == SoundcloudResults(run.stdout)
       IN IF run.ok /\ run.stdout # <<>>
             /\ Len(fallbackFormattedResults) > Len(formattedResults)
          THEN reqs' = [reqs EXCEPT ![r] = Responded([@ EXCEPT !.fallbackBetter = Better(run, formattedResults)],
                           SearchResults(TRUE, <<>>, fallbackFormattedResults, "fallback_results"))]
          ELSE IF Len(formattedResults) = 0
          THEN reqs' = [reqs EXCEPT ![r] = Responded([@ EXCEPT !.fallbackBetter = Better(run, formattedResults)],
                           SearchResults(FALSE, <<"No relevant SoundCloud songs found. Try a more specific query.">>,
                                         <<>>, "no_results"))]
          ELSE reqs' = [reqs EXCEPT ![r] = Responded([@ EXCEPT !.fallbackBetter = Better(run, formattedResults)],
                           SearchResults(TRUE, <<>>, formattedResults, "results"))]
    /\ UNCHANGED <<variant, firebaseAdminInitialized, fs, bucket, searchCache, now>>

----------------------------------------------------------------------------
(* GET /search, cached: src/unnamed/part_000 74-145 *)

RemoteSearch(query) ==
    /\ variant = "remote"
    /\ Cardinality(Searches) < MaxSearches
    /\ LET q == NewSearch(query)
       IN IF Falsy(query)
          THEN reqs' = Append(reqs, Responded(q,
                          SearchFailure(400, <<"Search query is required.">>, <<>>, "invalid")))
          ELSE LET cacheKey == CacheKey(query.text)
                   q1 == [q EXCEPT !.cacheOps = Append(@, "get"), !.cacheKey = cacheKey,
                                   !.entrySet = EntrySet(searchCache, cacheKey)]
               IN IF CacheHit(searchCache, cacheKey, now)
                  THEN reqs' = Append(reqs, Responded(q1,
                                  SearchResults(TRUE, <<>>, searchCache[cacheKey].v, "cached")))
                  ELSE reqs' = Append(reqs, Started(q1, "search", "searching"))
    /\ UNCHANGED <<variant, firebaseAdminInitialized, fs, bucket, searchCache, now>>

\* the callback of exec(command): part_000 93-144
RemoteSearchCallback(r, run) ==
    /\ variant = "remote"
    /\ reqs[r].pc = "searching"
    /\ IF ~run.ok
       THEN /\ reqs' = [reqs EXCEPT ![r] = Responded(@,
                           SearchFailure(500, ClassifySearchError(run.stderr), run.stderr,
                                         "search_error"))]
            /\ searchCache' = searchCache
       ELSE LET cacheKey == CacheKey(reqs[r].input.text)
                results == ParsedResults(run.stdout)
            IN /\ searchCache' = CacheSet(searchCache, cacheKey, results, now)
               /\ reqs' = [reqs EXCEPT ![r] = Responded([@ EXCEPT !.cacheOps = Append(@, "set"),
                                                                 !.cacheKey = cacheKey,
                                                                 !.unparsable = Unparsable(run.stdout)],
                              SearchResults(TRUE, <<>>, results, "results"))]
    /\ UNCHANGED <<variant, firebaseAdminInitialized, fs, bucket, now>>

\* the process ends and is started again: what it held in memory is gone (the
\* requests it had not answered, with their subprocesses, and the search
\* cache); the files on disk and the objects of the bucket stay
Restart ==
    /\ Restarts < MaxRestarts
    /\ reqs' = Append([i \in DOMAIN reqs |->
                          IF reqs[i].pc \in {"done", "restart"} THEN reqs[i]
                          ELSE [reqs[i] EXCEPT !.pc = "lost"]],
                      [NewRequest("restart", Undefined) EXCEPT !.pc = "restart"])
    /\ searchCache' = <<>>
    /\ UNCHANGED <<variant, firebaseAdminInitialized, fs, bucket, now>>

\* the client of a request closes the connection while the Converter runs;
\* no handler listens for it and the subprocess belongs to the process
ClientCancels(r) ==
    /\ reqs[r].route = "download"
    /\ Converting(reqs[r])
    /\ ~reqs[r].cancelled
    /\ reqs' = [reqs EXCEPT ![r].cancelled = TRUE]
    /\ UNCHANGED <<variant, firebaseAdminInitialized, fs, bucket, searchCache, now>>

\* time passes; only NodeCache reads the clock
Tick ==
    /\ variant = "remote"
    /\ now < MaxTicks * TickSeconds
    /\ now' = now + TickSeconds
    /\ UNCHANGED <<variant, firebaseAdminInitialized, fs, bucket, searchCache, reqs>>

----------------------------------------------------------------------------

NextDownload ==
    \/ \E body \in Bodies : LocalDownloadMp3(body)
    \/ \E body \in Bodies : RemoteDownloadMp3(body)
    \/ \E body \in Bodies : YouTubeDownloadMp3(body)
    \/ \E r \in Requests : ConverterWrites(r)
    \/ \E r \in Requests, exit \in Exits : ConverterExits(r, exit)
    \/ \E r \in Requests : LocalDownloadCallback(r)
    \/ \E r \in Requests, outcome \in MetaOutcomes : LocalExistingMetadataCallback(r, outcome)
    \/ \E r \in Requests, outcome \in MetaOutcomes : LocalMetadataCallback(r, outcome)
    \/ \E r \in Requests, throws \in BOOLEAN : RemoteStoreCheckReturns(r, throws)
    \/ \E r \in Requests : RemoteDownloadCallback(r)
    \/ \E r \in Requests, outcome \in UploadOutcomes : RemoteUploadReturns(r, outcome)
    \/ \E r \in Requests, outcome \in MetaOutcomes : RemoteExistingMetadataCallback(r, outcome)
    \/ \E r \in Requests, outcome \in MetaOutcomes : RemoteMetadataCallback(r, outcome)
    \/ \E r \in Requests, exit \in Exits : YouTubeInfoReturns(r, exit)
    \/ \E r \in Requests, exit \in Exits : YouTubeGetUrlClose(r, exit)
    \/ \E r \in Requests : YouTubeConvertCallback(r)

NextSearch ==
    \/ \E query \in Queries : YouTubeSearch(query)
    \/ \E query \in Queries : LocalSearch(query)
    \/ \E query \in Queries : RemoteSearch(query)
    \/ \E r \in Requests : \E run \in Runs(reqs[r].input.text) : YouTubeSearchReturns(r, run)
    \/ \E r \in Requests : \E run \in Runs(reqs[r].input.text) : LocalSearchCallback(r, run)
    \/ \E r \in Requests : \E run \in Runs(reqs[r].input.text) : LocalFallbackCallback(r, run)
    \/ \E r \in Requests : \E run \in Runs(reqs[r].input.text) : RemoteSearchCallback(r, run)
    \/ Tick

Next == NextDownload \/ NextSearch \/ Restart

\* the whole service
Spec == Init /\ [][Next]_vars
\* the two endpoints share no state: each on its own
SpecDownload == Init /\ [][NextDownload]_vars
SpecSearch == Init /\ [][NextSearch]_vars
\* /download-mp3 on a server that may be restarted
SpecRestart == Init /\ [][NextDownload \/ Restart]_vars

\* /download-mp3 with clients that may abandon their requests
SpecCancel == Init /\ [][NextDownload \/ \E r \in Requests : ClientCancels(r)]_vars

\* the remote program started without its store (Firebase initialisation
\* failed, part_000 16-35): both endpoints
NextDegraded ==
    \/ Len(reqs) < MaxDegraded /\ \E body \in Bodies : RemoteDownloadMp3(body)
    \/ Len(reqs) < MaxDegraded /\ \E query \in Queries : RemoteSearch(query)
    \/ \E r \in Requests : \E run \in Runs(reqs[r].input.text) : RemoteSearchCallback(r, run)
    \/ Tick
InitDegraded == Init /\ variant = "remote" /\ ~firebaseAdminInitialized
SpecDegraded == InitDegraded /\ [][NextDegraded]_vars

\* both endpoints of one program in use at once
NextConcurrent == (NextDownload \/ NextSearch) /\ Len(reqs') <= MaxConcurrent
SpecConcurrent == Init /\ [][NextConcurrent]_vars

\* the subprocess or store call the request waits for returns and its
\* callback, or the rest of its handler, runs
Returns(r) ==
    /\ r \in Requests
    /\ \/ \E exit \in Exits : ConverterExits(r, exit)
       \/ LocalDownloadCallback(r)
       \/ \E outcome \in MetaOutcomes : LocalExistingMetadataCallback(r, outcome)
       \/ \E outcome \in MetaOutcomes : LocalMetadataCallback(r, outcome)
       \/ \E throws \in BOOLEAN : RemoteStoreCheckReturns(r, throws)
       \/ RemoteDownloadCallback(r)
       \/ \E outcome \in UploadOutcomes : RemoteUploadReturns(r, outcome)
       \/ \E outcome \in MetaOutcomes : RemoteExistingMetadataCallback(r, outcome)
       \/ \E outcome \in MetaOutcomes : RemoteMetadataCallback(r, outcome)
       \/ \E exit \in Exits : YouTubeInfoReturns(r, exit)
       \/ \E exit \in Exits : YouTubeGetUrlClose(r, exit)
       \/ YouTubeConvertCallback(r)
       \/ \E run \in Runs(reqs[r].input.text) : YouTubeSearchReturns(r, run)
       \/ \E run \in Runs(reqs[r].input.text) : LocalSearchCallback(r, run)
       \/ \E run \in Runs(reqs[r].input.text) : LocalFallbackCallback(r, run)
       \/ \E run \in Runs(reqs[r].input.text) : RemoteSearchCallback(r, run)

\* both endpoints while the clock stands, every subprocess and every store
\* call returning in the end
NextLive ==
    /\ \/ NextDownload
       \/ \E query \in Queries : YouTubeSearch(query)
       \/ \E query \in Queries : LocalSearch(query)
       \/ \E query \in Queries : RemoteSearch(query)
       \/ \E r \in Requests : \E run \in Runs(reqs[r].input.text) : YouTubeSearchReturns(r, run)
       \/ \E r \in Requests : \E run \in Runs(reqs[r].input.text) : LocalSearchCallback(r, run)
       \/ \E r \in Requests : \E run \in Runs(reqs[r].input.text) : LocalFallbackCallback(r, run)
       \/ \E r \in Requests : \E run \in Runs(reqs[r].input.text) : RemoteSearchCallback(r, run)
    /\ Len(reqs') <= MaxConcurrent
SpecLive == Init /\ [][NextLive]_vars /\ \A r \in 1..MaxConcurrent : WF_vars(Returns(r))

\* one request on a fresh server, its subprocess failing with any diagnostic
\* text: what the two classification chains make of each text
NextClassify ==
    \/ reqs = <<>> /\ LocalDownloadMp3(Str(TrackA))
    \/ reqs = <<>> /\ RemoteDownloadMp3(Str(TrackA))
    \/ \E r \in Requests, throws \in BOOLEAN : RemoteStoreCheckReturns(r, throws)
    \/ \E r \in Requests, d \in Diagnostics : ConverterExits(r, [ok |-> FALSE, stderr |-> d])
    \/ \E r \in Requests : LocalDownloadCallback(r)
    \/ \E r \in Requests : RemoteDownloadCallback(r)
    \/ reqs = <<>> /\ LocalSearch(Str(<<"daft punk">>))
    \/ reqs = <<>> /\ RemoteSearch(Str(<<"daft punk">>))
    \/ \E r \in Requests, d \in Diagnostics :
          LocalSearchCallback(r, [ok |-> FALSE, stderr |-> d, stdout |-> <<>>])
    \/ \E r \in Requests, d \in Diagnostics :
          RemoteSearchCallback(r, [ok |-> FALSE, stderr |-> d, stdout |-> <<>>])

SpecClassify == Init /\ [][NextClassify]_vars

----------------------------------------------------------------------------
(* Properties *)

Done(r) == reqs[r].pc = "done"

\* the request has started a Converter
StartedConverter(q) == Includes(q.procs, "convert") \/ Includes(q.procs, "geturl")

\* what the client receives
Payload(response) ==
    [status |-> response.status, success |-> response.success, message |-> response.message,
     audioUrl |-> response.audioUrl, title |-> response.title, artist |-> response.artist,
     stderr |-> response.stderr]

\* a well-formed track locator: scheme, host, path
WellFormedLocator(text) == Len(text) = 3 /\ text[1] = "https://"

\* C1: a /download-mp3 request that arrives while a conversion for the same
\* url is running starts no Converter of its own, so requests that overlap
\* start exactly one.
C1_OneConverterPerUrl ==
    \A r \in Downloads : reqs[r].joined # {} => ~StartedConverter(reqs[r])

\* C2: the requests for one url that overlap a conversion all get the same
\* outcome: all success with the same audioUrl, or all the same failure.
C2_SameOutcome ==
    \A r \in Downloads : \A l \in reqs[r].joined :
        (Done(r) /\ Done(l)) =>
            /\ reqs[r].response.success = reqs[l].response.success
            /\ reqs[r].response.audioUrl = reqs[l].response.audioUrl
            /\ ~reqs[r].response.success => reqs[r].response.message = reqs[l].response.message

\* C3: once a request for a url has been answered with success, a later
\* request for that url starts no Converter and is answered with the same
\* artifact location.
C3_Idempotent ==
    \A r \in Downloads : \A l \in reqs[r].priorSuccess :
        /\ ~StartedConverter(reqs[r])
        /\ Done(r) => /\ reqs[r].response.success
                      /\ reqs[r].response.audioUrl = reqs[l].response.audioUrl

C5_OnlyFinishedArtifactsServed ==
    \A r \in Downloads :
        ~(reqs[r].found = "partial" /\ reqs[r].response.success)

\* C6: after a success response with an audioUrl, the artifact is at that
\* location and stays what it was: nothing deletes or replaces it.
C6_ArtifactImmutable ==
    \A r \in Downloads :
        reqs[r].response.success =>
            /\ reqs[r].artifact # NoFile
            /\ FileAt(IF variant = "remote" THEN bucket ELSE fs,
                      IF variant = "remote" THEN reqs[r].object ELSE reqs[r].path)
                 = reqs[r].artifact

\* C7: a request that arrives while a conversion for its url is running is
\* answered only after that conversion has ended, with the payload that the
\* request which started the conversion gets.
C7_FollowerWaitsForLeader ==
    \A r \in Downloads : \A l \in reqs[r].joined :
        Done(r) => /\ ~Converting(reqs[l])
                   /\ Done(l) => Payload(reqs[r].response) = Payload(reqs[l].response)

\* C8: a /download-mp3 request without url gets 400 and an invalid-input
\* message and starts no subprocess, in every configuration.
C8_MissingUrlIs400 ==
    \A r \in Downloads :
        ~reqs[r].input.present =>
            /\ Done(r)
            /\ reqs[r].response.status = 400
            /\ reqs[r].response.branch = "invalid"
            /\ reqs[r].procs = <<>>

\* C9: a /download-mp3 request whose url is there but is no well-formed
\* locator is rejected at once with an input error (4xx), no subprocess started.
C9_MalformedUrlRejected ==
    \A r \in Downloads :
        (reqs[r].input.present /\ reqs[r].input.text # <<>>
            /\ ~WellFormedLocator(reqs[r].input.text)) =>
            /\ Done(r)
            /\ reqs[r].response.status \in 400..499
            /\ reqs[r].procs = <<>>

\* C10: a /search request whose q is missing or empty gets 400, starts no
\* extractor and neither reads nor writes the search cache.
C10_EmptyQueryIs400 ==
    \A r \in Searches :
        (~reqs[r].input.present \/ reqs[r].input.text = <<>>) =>
            /\ Done(r)
            /\ reqs[r].response.status = 400
            /\ reqs[r].procs = <<>>
            /\ reqs[r].cacheOps = <<>>

\* an empty q was refused by the cached handler while its cache held an entry
C10_Witness ==
    \E r \in Searches :
        /\ reqs[r].input = Str(<<>>)
        /\ reqs[r].response.status = 400
        /\ variant = "remote"
        /\ searchCache # <<>>

\* the kind of the taxonomy that a failure message of the handlers stands for
KindOf(message) ==
    CASE message \in {<<"Source URL is required for download.">>, <<"YouTube URL is required.">>,
                      <<"Invalid YouTube URL provided.">>, <<"Search query is required.">>}
           -> "InvalidInput"
      [] message \in {<<"Track not found, unavailable, or is private.">>,
                      <<"No songs found on SoundCloud for this query. Try a different name.">>}
           -> "SourceUnavailable"
      [] message \in {<<"Download blocked by source website (bot detection/login required).">>,
                      <<"SoundCloud search blocked (bot detection/login required).">>}
           -> "SourceBlocked"
      [] message \in {<<"Download timed out. The server might be too slow or network issues.">>,
                      <<"SoundCloud search timed out. The server might be too slow or network issues.">>}
           -> "Timeout"
      [] message \in {<<"Source website rate limit exceeded. Please try again later.">>,
                      <<"SoundCloud rate limit exceeded. Please try again later.">>}
           -> "RateLimited"
      [] message \in {<<"An unsupported yt-dlp option was used. Please check backend logs or update yt-dlp.">>,
                      <<"Audio conversion tools (ffmpeg/ffprobe) not found or not working on server. Check server setup.">>}
           -> "ToolMisconfigured"
      [] message \in {<<"Failed to parse metadata after download.">>,
                      <<"Failed to parse metadata for existing file.">>,
                      <<"Failed to parse metadata after download and upload.">>,
                      <<"Failed to parse metadata for existing file from Firebase Storage.">>,
                      <<"Could not process search results from SoundCloud. It might be a temporary issue or content restrictions.">>}
           -> "ParseFailure"
      [] OTHER -> "Generic"

\* the handlers that classify the diagnostic text of a failed subprocess
Classifying == variant \in {"local", "remote"}

\* C11: a failed conversion whose diagnostic text contains "Private video"
\* is answered as SourceUnavailable (track not found, unavailable or private)
\* with a 4xx status.
C11_PrivateVideoIs4xx ==
    \A r \in Downloads :
        (Classifying /\ reqs[r].response.branch = "convert_error"
            /\ Includes(reqs[r].stderr, "Private video")) =>
            /\ KindOf(reqs[r].response.message) = "SourceUnavailable"
            /\ reqs[r].response.status \in 400..499

\* C12: the status of a failure response follows from its kind: InvalidInput,
\* SourceUnavailable and SourceBlocked are 4xx; Timeout, RateLimited,
\* ParseFailure and ToolMisconfigured are 5xx.
C12_StatusFollowsKind ==
    \A r \in Requests :
        (Done(r) /\ ~reqs[r].response.success) =>
            LET kind == KindOf(reqs[r].response.message)
            IN /\ kind \in {"InvalidInput", "SourceUnavailable", "SourceBlocked"}
                    => reqs[r].response.status \in 400..499
               /\ kind \in {"Timeout", "RateLimited", "ParseFailure", "ToolMisconfigured"}
                    => reqs[r].response.status \in 500..599

\* the signatures of a chain in the order it tests them, each with its message
DownloadSignatures ==
    << [tokens |-> {"Sign in to confirm you're not a bot", "Please log in"},
        message |-> <<"Download blocked by source website (bot detection/login required).">>],
       [tokens |-> {"No such video", "Private video", "unavailable"},
        message |-> <<"Track not found, unavailable, or is private.">>],
       [tokens |-> {"Unsupported URL"},
        message |-> <<"Unsupported URL for download. Please ensure it is a valid video/audio page.">>],
       [tokens |-> {"timed out"},
        message |-> <<"Download timed out. The server might be too slow or network issues.">>],
       [tokens |-> {"no such option"},
        message |-> <<"An unsupported yt-dlp option was used. Please check backend logs or update yt-dlp.">>],
       [tokens |-> {"RateLimitExceeded"},
        message |-> <<"Source website rate limit exceeded. Please try again later.">>],
       [tokens |-> {"ffprobe", "ffmpeg"},
        message |-> <<"Audio conversion tools (ffmpeg/ffprobe) not found or not working on server. Check server setup.">>] >>

SearchSignatures ==
    << [tokens |-> {"No entries found"},
        message |-> <<"No songs found on SoundCloud for this query. Try a different name.">>],
       [tokens |-> {"Sign in to confirm you're not a bot", "Please log in"},
        message |-> <<"SoundCloud search blocked (bot detection/login required).">>],
       [tokens |-> {"Unable to extract", "ERROR"},
        message |-> <<"Could not process search results from SoundCloud. It might be a temporary issue or content restrictions.">>],
       [tokens |-> {"timed out"},
        message |-> <<"SoundCloud search timed out. The server might be too slow or network issues.">>],
       [tokens |-> {"no such option"},
        message |-> <<"An unsupported yt-dlp option was used. Please check backend logs or update yt-dlp.">>],
       [tokens |-> {"RateLimitExceeded"},
        message |-> <<"SoundCloud rate limit exceeded. Please try again later.">>] >>

RECURSIVE FirstMatch(_, _, _)
\* the message of the first signature of the list that occurs in the text,
\* wherever in the text it occurs; the generic message if none does
FirstMatch(signatures, text, generic) ==
    IF signatures = <<>> THEN generic
    ELSE IF \E t \in Head(signatures).tokens : Includes(text, t)
         THEN Head(signatures).message
         ELSE FirstMatch(Tail(signatures), text, generic)

\* C13: the message of a failed subprocess is a function of its diagnostic
\* text: the signatures are tried in the chain's one order, the first that
\* occurs decides, and the generic failure message is used when none occurs.
C13_FirstMatchWins ==
    \A r \in Requests :
        /\ (Classifying /\ reqs[r].response.branch = "convert_error") =>
              reqs[r].response.message =
                  FirstMatch(DownloadSignatures, reqs[r].stderr,
                             <<"Failed to download or convert: ", "Command failed: ">> \o reqs[r].stderr)
        /\ (Classifying /\ reqs[r].response.branch = "search_error") =>
              reqs[r].response.message =
                  FirstMatch(SearchSignatures, reqs[r].response.stderr,
                             <<"Failed to perform search: ", "Command failed: ">> \o reqs[r].response.stderr)

\* a conversion failed with a text that carries two signatures, the one the
\* chain tests first coming second in the text, and the first of the chain decided
C13_Witness ==
    \E r \in Downloads :
        /\ reqs[r].response.branch = "convert_error"
        /\ reqs[r].stderr = <<"timed out", "Private video">>
        /\ reqs[r].response.message = <<"Track not found, unavailable, or is private.">>

\* the diagnostic text of the failed subprocess of a request
DiagnosticOf(r) ==
    IF reqs[r].route = "search" THEN reqs[r].response.stderr ELSE reqs[r].stderr

\* C14: in /search and in /download-mp3, a subprocess failure whose text
\* reports a time-out is classified Timeout and one whose text reports
\* throttling is classified RateLimited, also when the text begins with the
\* tool's "ERROR" prefix.
C14_TimeoutAndRateLimitRecognised ==
    \A r \in Requests :
        (Classifying /\ reqs[r].response.branch \in {"convert_error", "search_error"}) =>
            /\ (Includes(DiagnosticOf(r), "timed out")
                  /\ ~Includes(DiagnosticOf(r), "RateLimitExceeded"))
                 => KindOf(reqs[r].response.message) = "Timeout"
            /\ (Includes(DiagnosticOf(r), "RateLimitExceeded")
                  /\ ~Includes(DiagnosticOf(r), "timed out"))
                 => KindOf(reqs[r].response.message) = "RateLimited"

\* the request converted (and, with the remote store, uploaded) and then
\* asked for the metadata
ConvertedThenMetadata(q) ==
    /\ Includes(q.procs, "convert")
    /\ variant = "remote" => Includes(q.procs, "store.upload")
    /\ q.procs[Len(q.procs)] = "metadata"

\* C15: once the conversion (and the upload) has succeeded, the request is
\* answered with success and the audioUrl whatever becomes of the metadata
\* lookup, be it a failed exit or output that does not parse.
C15_MetadataFailureDegrades ==
    \A r \in Downloads :
        (Done(r) /\ ConvertedThenMetadata(reqs[r])) =>
            /\ reqs[r].response.success
            /\ reqs[r].response.audioUrl = reqs[r].publicAudioUrl

\* C16: a request that finds the finished artifact of its url in the store is
\* answered with success and the stored artifact's url, whatever the outcome of
\* the metadata lookup.
C16_ExistingArtifactServed ==
    \A r \in Downloads :
        (Done(r) /\ reqs[r].found = "complete") =>
            /\ reqs[r].response.success
            /\ reqs[r].response.audioUrl = reqs[r].publicAudioUrl

\* C17: after a restart, a request for a url that was converted with success
\* before the restart, and whose file the store still holds, starts no
\* Converter and is served the stored artifact.
C17_ServedFromStoreAfterRestart ==
    \A r \in Downloads : \A l \in reqs[r].priorSuccess :
        (reqs[l].boot < reqs[r].boot /\ reqs[l].response.branch = "converted"
            /\ reqs[r].held.content = "complete") =>
            /\ ~StartedConverter(reqs[r])
            /\ Done(r) => /\ reqs[r].response.success
                          /\ reqs[r].response.audioUrl = reqs[l].response.audioUrl

\* C18: a failed conversion is not remembered. A request for a url all of
\* whose earlier requests ended in a conversion failure starts a Converter of
\* its own once it is past its existence check (and it can succeed: the
\* witness), unless a request for the url that arrived after it has started
\* one in the meantime.
C18_FailureNotRemembered ==
    \A r \in Downloads :
        (variant \in {"local", "remote"}
            /\ reqs[r].prior # {} /\ reqs[r].prior = reqs[r].priorFailure
            /\ reqs[r].pc \notin {"arrived", "checking"}) =>
            \/ StartedConverter(reqs[r])
            \/ \E i \in Downloads : /\ i > r
                                     /\ reqs[i].input = reqs[r].input
                                     /\ StartedConverter(reqs[i])

\* the conversion for a url failed after writing to its target, and the next
\* request for the url converted it and was answered with success
C18_Witness ==
    \E r \in Downloads :
        /\ reqs[r].prior # {} /\ reqs[r].prior = reqs[r].priorFailure
        /\ \E l \in reqs[r].priorFailure : reqs[l].wrote
        /\ StartedConverter(reqs[r])
        /\ reqs[r].response.success
        /\ reqs[r].response.branch = "converted"

\* the request started an extractor run
StartedExtractor(q) == Includes(q.procs, "search")

\* C19: of two searches for the same query, the second arriving no more than
\* the TTL after the first was answered with the results of its extractor run,
\* the second starts no extractor and returns the list the first returned.
C19_SecondSearchServedIdentically ==
    \A r \in Searches : \A l \in reqs[r].fresh :
        variant = "remote" =>
            /\ ~StartedExtractor(reqs[r])
            /\ Done(r) => reqs[r].response.results = reqs[l].response.results

\* C20: a cache entry is never served after it has expired: a search that
\* arrives more than the TTL after the entry of its key was stored is a miss
\* and starts an extractor run, and a search served from the cache arrived
\* no later than that.
C20_NeverServedAfterExpiry ==
    \A r \in Searches :
        /\ (reqs[r].entrySet >= 0 /\ reqs[r].at > reqs[r].entrySet + stdTTL) =>
              /\ reqs[r].response.branch # "cached"
              /\ StartedExtractor(reqs[r])
        /\ reqs[r].response.branch = "cached" =>
              /\ reqs[r].entrySet >= 0
              /\ reqs[r].at <= reqs[r].entrySet + stdTTL

\* a search arrived after the entry of its key had expired and ran the extractor
C20_Witness ==
    \E r \in Searches :
        /\ reqs[r].entrySet >= 0
        /\ reqs[r].at > reqs[r].entrySet + stdTTL
        /\ StartedExtractor(reqs[r])
        /\ Done(r)

\* the request stored the results of its extractor run in the cache
Stored(q) == Includes(q.cacheOps, "set")

\* C21: the cache causes no incorrect result. What is served from the cache
\* for q is the list an earlier run for exactly q produced no more than the
\* TTL before; every entry is the list of a run for the entry's query; and
\* no run that failed or whose output did not parse is stored or served.
C21_CacheServesOnlyGoodRuns ==
    /\ \A r \in Searches :
          reqs[r].response.branch = "cached" =>
              \E l \in Searches :
                  /\ Stored(reqs[l]) /\ ~reqs[l].unparsable
                  /\ reqs[l].input = reqs[r].input
                  /\ reqs[l].response.results = reqs[r].response.results
                  /\ reqs[l].answered <= reqs[r].at
                  /\ reqs[r].at <= reqs[l].answered + stdTTL
    /\ \A key \in DOMAIN searchCache :
          \E l \in Searches :
              /\ Stored(reqs[l]) /\ ~reqs[l].unparsable
              /\ reqs[l].response.branch = "results"
              /\ CacheKey(reqs[l].input.text) = key
              /\ reqs[l].response.results = searchCache[key].v
    /\ \A l \in Searches :
          Stored(reqs[l]) => reqs[l].response.branch = "results" /\ ~reqs[l].unparsable

\* C22: the cache key is the literal query string. A search served from the
\* cache read the key that only searches for exactly its query write, so
\* queries that differ in letter case have entries of their own.
C22_LiteralCacheKey ==
    \A r \in Searches : \A l \in Searches :
        (Stored(reqs[l]) /\ Includes(reqs[r].cacheOps, "get")
            /\ reqs[r].cacheKey = reqs[l].cacheKey) =>
            reqs[r].input = reqs[l].input

\* while the cache held an entry for one query, a search for the same words
\* in another letter case missed the cache and ran the extractor
C22_Witness ==
    \E r \in Searches : \E l \in Searches :
        /\ Stored(reqs[l]) /\ reqs[l].answered <= reqs[r].at
        /\ reqs[l].input = Str(<<"daft punk">>)
        /\ reqs[r].input = Str(<<"Daft Punk">>)
        /\ reqs[r].entrySet = -1
        /\ StartedExtractor(reqs[r])

\* C23: with the remote store the working directory is a staging area: once
\* every download request has been answered, no file is left in it.
C23_StagingAreaEmptied ==
    (variant = "remote" /\ \A r \in Downloads : Done(r)) => DOMAIN fs = {}

\* every request has been answered, one after its artifact was uploaded and
\* one after its conversion or its upload failed
C23_Witness ==
    /\ variant = "remote"
    /\ \A r \in Downloads : Done(r)
    /\ \E r \in Downloads : reqs[r].wrote /\ reqs[r].response.success
    /\ \E r \in Downloads : reqs[r].wrote /\ ~reqs[r].response.success

\* C24: the artifact location is <working directory>/<fingerprint>.mp3 with
\* the fingerprint a function of the url alone: equal urls have the same
\* location, and no token of the url is a component of the path.
C24_LocationDeterminedByUrl ==
    \A r \in Downloads :
        reqs[r].path # NoPath =>
            /\ reqs[r].path[1] \in {downloadsDir, audioDir, audioTempDir}
            /\ \A i \in 1..Len(reqs[r].path) :
                   ~Includes(reqs[r].input.text, reqs[r].path[i])
            /\ \A q \in Downloads :
                   (reqs[q].path # NoPath /\ reqs[q].input = reqs[r].input) =>
                       reqs[q].path = reqs[r].path

\* C25: a conversion whose client went away still completes and stores the
\* artifact: a later request for the url that finds the artifact in the store
\* starts no Converter and is served the stored artifact.
C25_AbandonedConversionServesLater ==
    \A r \in Downloads : \A l \in reqs[r].priorSuccess :
        (reqs[l].cancelled /\ reqs[l].response.branch = "converted"
            /\ reqs[r].held.content = "complete") =>
            /\ ~StartedConverter(reqs[r])
            /\ Done(r) => /\ reqs[r].response.success
                          /\ reqs[r].response.audioUrl = reqs[l].response.audioUrl

\* C26: after the process went down with conversions in flight, no target
\* location holds the partial output of one of them.
C26_NoPartialOutputAfterShutdown ==
    \A r \in Downloads :
        reqs[r].pc = "lost" => FileAt(fs, reqs[r].path) # File("partial", r)

\* C27: started without its store, the service answers every /download-mp3
\* request at once with the explicit 500 of the initialisation guard,
\* starting no subprocess and no store call and leaving store and working
\* directory alone, while /search requests run their extractor, use the cache
\* and are answered as usual.
C27_DegradedMode ==
    (variant = "remote" /\ ~firebaseAdminInitialized) =>
        /\ \A r \in Downloads :
              /\ Done(r)
              /\ reqs[r].response.status = 500 /\ ~reqs[r].response.success
              /\ reqs[r].response.branch = "not_initialized"
              /\ reqs[r].response.message # <<>>
              /\ reqs[r].procs = <<>>
        /\ bucket = <<>> /\ fs = <<>>
        /\ \A r \in Searches :
              /\ reqs[r].response.branch # "not_initialized"
              /\ Done(r) =>
                    reqs[r].response.branch \in
                        {"invalid", "cached", "results", "search_error", "process_error"}
              /\ (Done(r) /\ Stored(reqs[r])) =>
                    /\ reqs[r].response.success
                    /\ searchCache # <<>>

\* in one run a download was refused and a search was answered with the
\* results of its extractor run
C27_Witness ==
    /\ variant = "remote" /\ ~firebaseAdminInitialized
    /\ \E r \in Downloads : reqs[r].input = Str(TrackA) /\ Done(r)
    /\ \E r \in Searches : reqs[r].response.branch = "results"
                           /\ reqs[r].response.results # <<>>

\* a subprocess or store call of the request is outstanding
InFlight(r) == reqs[r].route \in {"download", "search"} /\ reqs[r].pc # "done"

\* the next step of the request can be taken now
CanStep(r) == ENABLED ((NextDownload \/ NextSearch) /\ reqs'[r] # reqs[r])

\* the service can take in a /download-mp3 request with this body, a /search
\* request with this query
CanAcceptDownload(body) ==
    ENABLED (LocalDownloadMp3(body) \/ RemoteDownloadMp3(body) \/ YouTubeDownloadMp3(body))
CanAcceptSearch(query) ==
    ENABLED (LocalSearch(query) \/ RemoteSearch(query) \/ YouTubeSearch(query))

\* C28: while a request has a subprocess in flight, the service accepts any
\* other request, and every other unfinished request for another url or query
\* can take its next step: none waits for the first one's subprocess.
C28_NoRequestWaitsForAnother ==
    \A i \in Requests :
        InFlight(i) =>
            /\ \A body \in Bodies :
                   (body # reqs[i].input /\ Cardinality(Downloads) < MaxRequests) =>
                       CanAcceptDownload(body)
            /\ \A query \in Queries :
                   (query # reqs[i].input /\ Cardinality(Searches) < MaxSearches) =>
                       CanAcceptSearch(query)
            /\ \A j \in Requests :
                   (InFlight(j) /\ reqs[j].input # reqs[i].input) => CanStep(j)

\* a request that arrived while the Converter of another was running has been
\* answered with success, the other's Converter still running
C28_Witness ==
    \E i \in Downloads : \E j \in Requests :
        /\ i < j /\ Converting(reqs[i]) /\ reqs[i].wrote
        /\ reqs[j].input # reqs[i].input
        /\ Done(j) /\ reqs[j].response.success /\ reqs[j].procs # <<>>

\* the step is one of request r
Steps(r) == reqs'[r] # reqs[r]

\* C29: a step of a request for one url changes no local file and no remote
\* object at the location of a request for another url; every file or object
\* that changes is at the location of the request whose step it is.
C29_OtherArtifactsUntouched ==
    [][/\ \A r \in Downloads : \A q \in Downloads :
             (Steps(r) /\ reqs[q].input # reqs[r].input /\ reqs[q].path # NoPath) =>
                 /\ FileAt(fs', reqs[q].path) = FileAt(fs, reqs[q].path)
                 /\ FileAt(bucket', reqs[q].object) = FileAt(bucket, reqs[q].object)
       /\ \A p \in DOMAIN fs \cup DOMAIN fs' :
             FileAt(fs', p) # FileAt(fs, p) =>
                 \E r \in Downloads : Steps(r) /\ reqs[r].path = p
       /\ \A o \in DOMAIN bucket \cup DOMAIN bucket' :
             FileAt(bucket', o) # FileAt(bucket, o) =>
                 \E r \in Downloads : Steps(r) /\ reqs[r].object = o
      ]_vars

\* the conversion for one url failed and its output was removed while the
\* finished artifact of a request for another url is where that request put it
C29_Witness ==
    \E r \in Downloads : \E q \in Downloads :
        /\ reqs[r].input # reqs[q].input
        /\ reqs[r].wrote /\ Done(r) /\ reqs[r].response.branch = "convert_error"
        /\ reqs[q].path # NoPath
        /\ FileAt(fs, reqs[q].path) = File("complete", q)

UploadFailed(q) == q.pc = "done" /\ q.procs # <<>> /\ q.procs[Len(q.procs)] = "store.upload"

\* the request's upload and url signing returned without error
Uploaded(q) == Includes(q.procs, "store.upload") /\ ~UploadFailed(q) /\ q.pc # "uploading"

\* C32: with the remote store, a success response carries the object's signed
\* url and is sent only when the object is in the store, after the existence
\* check found it or this request's own upload completed; a request whose
\* upload failed is answered with a failure.
C32_SuccessOnlyAfterStored ==
    variant = "remote" =>
        \A r \in Downloads :
            /\ (Done(r) /\ reqs[r].response.success) =>
                  /\ reqs[r].response.audioUrl = SignedUrl(reqs[r].object)
                  /\ reqs[r].artifact.content # "none"
                  /\ existsSync(bucket, reqs[r].object)
                  /\ reqs[r].found # "none" \/ Uploaded(reqs[r])
            /\ UploadFailed(reqs[r]) =>
                  /\ ~reqs[r].response.success
                  /\ reqs[r].response.status = 500
                  /\ reqs[r].response.audioUrl = <<>>

\* one request was answered with success after its upload and a later one
\* after the existence check found the object
C32_Witness ==
    /\ variant = "remote"
    /\ \E r \in Downloads : reqs[r].response.success /\ Uploaded(reqs[r])
    /\ \E r \in Downloads : reqs[r].response.success /\ reqs[r].found # "none"

\* the request is past its existence check
Checked(q) == Includes(q.procs, "store.exists") /\ q.pc # "checking"

\* C33: with the remote store, an error raised by the existence check or the
\* url signing does not fail the request: it goes on to a conversion of its
\* own; and a Converter is started only after a check that found no object or
\* one that raised an error.
C33_FailedCheckFallsBackToConversion ==
    variant = "remote" =>
        \A r \in Downloads :
            /\ reqs[r].checkThrew => reqs[r].held.content # "none" /\ reqs[r].found = "none"
            /\ (Checked(reqs[r]) /\ (reqs[r].checkThrew \/ reqs[r].held.content = "none")) =>
                  StartedConverter(reqs[r])
            /\ StartedConverter(reqs[r]) => Checked(reqs[r])
            /\ (Checked(reqs[r]) /\ ~reqs[r].checkThrew /\ reqs[r].held.content # "none") =>
                  ~StartedConverter(reqs[r])

\* a request whose check raised an error although the object was in the store
\* has converted, uploaded and been answered with success
C33_Witness ==
    /\ variant = "remote"
    /\ \E r \in Downloads :
          /\ reqs[r].checkThrew /\ reqs[r].held.content # "none"
          /\ Uploaded(reqs[r]) /\ Done(r) /\ reqs[r].response.success

\* the search was answered after extractor runs that succeeded and left no
\* usable result
EmptyOutcome(q) ==
    /\ q.route = "search" /\ q.pc = "done"
    /\ q.response.branch \in {"results", "fallback_results", "no_results"}
    /\ q.response.results = <<>>

\* C34: a search whose extractor succeeded with no usable result is answered
\* in one shape in every program and on every path: here the soft failure,
\* status 200 with success false.
C34_EmptyResultOneShape ==
    \A r \in Searches :
        EmptyOutcome(reqs[r]) =>
            /\ reqs[r].response.status = 200
            /\ ~reqs[r].response.success

\* the SoundCloud search is past the callback of its first extractor run
PastPrimary(q) == Includes(q.procs, "search") /\ q.pc # "searching"
StartedFallback(q) == Includes(q.procs, "fallback")

\* C35: in the SoundCloud search the fallback run is started exactly when the
\* first run succeeded with at most one usable result; the response carries
\* the fallback's results exactly when the fallback succeeded with strictly
\* more usable results than the first run, and the first run's otherwise.
C35_FallbackRule ==
    variant = "local" =>
        \A r \in Searches :
            /\ StartedFallback(reqs[r]) => PastPrimary(reqs[r]) /\ Len(reqs[r].results) <= 1
            /\ (PastPrimary(reqs[r]) /\ ~StartedFallback(reqs[r])) =>
                  /\ Done(r)
                  /\ \/ reqs[r].response.branch = "search_error"
                     \/ /\ reqs[r].response.branch = "results"
                        /\ Len(reqs[r].response.results) > 1
            /\ (Done(r) /\ StartedFallback(reqs[r])) =>
                  IF reqs[r].fallbackBetter
                  THEN /\ reqs[r].response.branch = "fallback_results"
                       /\ reqs[r].response.success
                       /\ Len(reqs[r].response.results) > Len(reqs[r].results)
                  ELSE /\ reqs[r].response.branch \in {"results", "no_results"}
                       /\ reqs[r].response.results = reqs[r].results
                       /\ reqs[r].response.success <=> reqs[r].results # <<>>

\* a search whose first run found one result was answered with the two
\* results of its fallback run
C35_Witness ==
    /\ variant = "local"
    /\ \E r \in Searches :
          /\ Done(r) /\ StartedFallback(reqs[r]) /\ reqs[r].fallbackBetter
          /\ Len(reqs[r].results) = 1 /\ Len(reqs[r].response.results) = 2

====
